---- MODULE Spec2Model ----
(***************************************************************************)
(* Users component of the API: the request handlers of the users           *)
(* controller, the users service they call, and the account store behind   *)
(* the service.  Every handler is an async function; it is cut into one    *)
(* action per store round trip, because the event loop can run another     *)
(* request's continuation between two awaited store calls and nowhere      *)
(* else.  Pure awaited work (bcrypt hash / compare) touches no shared      *)
(* state and is folded into the step that follows it.                      *)
(*                                                                         *)
(* The store (users-repository), hashPassword (utils/password) and         *)
(* errorResponder (core/errors) are called by this code but defined        *)
(* elsewhere; they are modelled from the specification.  Whether the       *)
(* users collection has a unique index on email is not decided by any      *)
(* code here, so both cases are initial states.  The controller's          *)
(* changePassword is not exported and the seed script runs outside the     *)
(* server; neither is an operation of this model.                          *)
(***************************************************************************)
EXTENDS Integers, Sequences, FiniteSets, TLC

\* ---------------------------------------------------------------- bounds
MaxAccounts == 2      \* identifiers the store hands out before creation stops

\* ------------------------------------------------------ program constants
MinPasswordLength == 6
MaxPasswordLength == 32

\* ----------------------------------------------------------------- inputs
\* Request bodies as the validator lets them through, and two new passwords
\* whose length is outside [6, 32].
Procs == {"r1", "r2"}          \* requests in flight at once
Ids == 1..MaxAccounts
Salts == {"salt"}              \* the hash carries its salt; no handler compares hashes
Names == {"Alice"}
Emails == {"alice@x.com", "bob@x.com"}
ShortPassword == "abcde"
LongPassword == "abcdefghijklmnopqrstuvwxyz0123456"
SeedPassword == "secret1"      \* the password accounts are created with
GoodPasswords == {SeedPassword, "newpass1"}
Passwords == GoodPasswords \cup {ShortPassword, LongPassword}

VARIABLES
  store,        \* id -> [name, email, password]: the users collection
  nextId,       \* next identifier the store assigns
  uniqueIndex,  \* whether the collection declares a unique index on email
  pc,           \* per request slot: where its handler is suspended
  req,          \* per request slot: the request (operation, params, body)
  user,         \* per request slot: the record read by changeUserPassword's lookup
  calls,        \* per request slot: the service/store/hash calls made, in order
  ret,          \* per request slot: what the service returned to the controller
  resp          \* per request slot: the response sent

vars == <<store, nextId, uniqueIndex, pc, req, user, calls, ret, resp>>

\* JavaScript null, and the three values the service functions return.
NULL == [null |-> TRUE]
NoRequest == [op |-> "none"]
NoReturn == [success |-> "none", cause |-> "none"]
NoResponse == [via |-> "none"]

\* ------------------------------------------------------ password hashing
\* bcrypt: a salted one-way hash; compare re-hashes under the stored salt.
hashPassword(password, salt) == [salt |-> salt, digest |-> password]

comparePasswords(password, hashedPassword) == hashedPassword.digest = password

\* ---------------------------------------------------------- account store
Record(id) == [id |-> id, name |-> store[id].name, email |-> store[id].email,
               password |-> store[id].password]

RECURSIVE Ascending(_)
Ascending(S) ==
  IF S = {} THEN <<>>
  ELSE LET m == CHOOSE x \in S : \A y \in S : x <= y
       IN <<m>> \o Ascending(S \ {m})

RepoGetUsers == [i \in 1..Cardinality(DOMAIN store) |-> Record(Ascending(DOMAIN store)[i])]

RepoGetUser(id) == IF id \in DOMAIN store THEN Record(id) ELSE NULL

RepoGetUserByEmail(email) ==
  IF \E id \in DOMAIN store : store[id].email = email
  THEN Record(CHOOSE id \in DOMAIN store : store[id].email = email)
  ELSE NULL

\* The unique index rejects a write that would give two records one email.
IndexRejects(id, email) ==
  uniqueIndex /\ \E other \in DOMAIN store \ {id} : store[other].email = email

Put(id, rec) == [i \in DOMAIN store \cup {id} |-> IF i = id THEN rec ELSE store[i]]

Remove(id) == [i \in DOMAIN store \ {id} |-> store[i]]

\* ------------------------------------------------------------- responses
json(status, body) == [via |-> "json", status |-> status, body |-> body]

errorResponder(type, message) == [type |-> type, message |-> message]

next(error) == [via |-> "next", error |-> error]

StoreError == [type |-> "STORE_ERROR", message |-> "store error"]

Send(p, r) ==
  /\ resp' = [resp EXCEPT ![p] = r]
  /\ pc' = [pc EXCEPT ![p] = "done"]

Log(p, names) == calls' = [calls EXCEPT ![p] = @ \o names]

Init ==
  /\ store = <<>>
  /\ nextId = 1
  /\ uniqueIndex \in BOOLEAN
  /\ pc = [p \in Procs |-> "idle"]
  /\ req = [p \in Procs |-> NoRequest]
  /\ user = [p \in Procs |-> NULL]
  /\ calls = [p \in Procs |-> <<>>]
  /\ ret = [p \in Procs |-> NoReturn]
  /\ resp = [p \in Procs |-> NoResponse]

\* ----------------------------------------------------------------- reads
Projection_WholeRecord(u) == u

Projection(u) == [id |-> u.id, name |-> u.name, email |-> u.email]

getUsers(p) ==
  /\ pc[p] = "idle"
  /\ req' = [req EXCEPT ![p] = [op |-> "getUsers"]]
  /\ Log(p, <<"repo.getUsers">>)
  /\ LET users == RepoGetUsers
         results == [i \in 1..Len(users) |-> Projection(users[i])]
     IN Send(p, json(200, results))
  /\ UNCHANGED <<store, nextId, uniqueIndex, user, ret>>

getUser(p) ==
  /\ pc[p] = "idle"
  /\ \E id \in Ids :
       /\ req' = [req EXCEPT ![p] = [op |-> "getUser", id |-> id]]
       /\ Log(p, <<"repo.getUser">>)
       /\ LET u == RepoGetUser(id)
          IN IF u = NULL
             THEN Send(p, next(errorResponder("UNPROCESSABLE_ENTITY", "Unknown user")))
             ELSE Send(p, json(200, Projection(u)))
  /\ UNCHANGED <<store, nextId, uniqueIndex, user, ret>>

\* ---------------------------------------------------------- createUser
\* As isEmailTaken, testing for undefined, which the lookup never returns.
isEmailTaken_Undefined(u) == FALSE

isEmailTaken(u) == u # NULL

\* As createUser, with the email looked up again in the same store operation.
createUser_Rechecked(name, email, password, salt, threw) ==
  LET hashedPassword == hashPassword(password, salt)
  IN IF \E id \in DOMAIN store : store[id].email = email
     THEN [success |-> "null", cause |-> "email_taken", store |-> store, nextId |-> nextId]
     ELSE IF threw
     THEN [success |-> "null", cause |-> "store_error", store |-> store, nextId |-> nextId]
     ELSE [success |-> "true", cause |-> "ok",
           store |-> Put(nextId, [name |-> name, email |-> email, password |-> hashedPassword]),
           nextId |-> nextId + 1]

\* Service createUser: hash, then the store's create; a throw becomes null.
createUser(name, email, password, salt, threw) ==
  LET hashedPassword == hashPassword(password, salt)
  IN IF threw \/ IndexRejects(0, email)
     THEN [success |-> "null", cause |-> "store_error", store |-> store, nextId |-> nextId]
     ELSE [success |-> "true", cause |-> "ok",
           store |-> Put(nextId, [name |-> name, email |-> email, password |-> hashedPassword]),
           nextId |-> nextId + 1]

\* Controller createUser up to the end of the awaited isEmailTaken.
createUser_check(p) ==
  /\ pc[p] = "idle"
  /\ \E name \in Names, email \in Emails, password \in {SeedPassword},
        password_confirm \in GoodPasswords :
       /\ req' = [req EXCEPT ![p] = [op |-> "createUser", name |-> name, email |-> email,
                                     password |-> password,
                                     password_confirm |-> password_confirm]]
       /\ IF password # password_confirm
          THEN /\ Send(p, json(403, [statusCode |-> 403, error |-> "INVALID_PASSWORD",
                                     message |-> "Password confirmation does not match"]))
               /\ UNCHANGED calls
          ELSE LET u == RepoGetUserByEmail(email)
               IN /\ Log(p, <<"repo.getUserByEmail">>)
                  /\ IF isEmailTaken(u)
                     THEN Send(p, json(409, [statusCode |-> 409,
                                             error |-> "EMAIL_ALREADY_TAKEN",
                                             message |-> "Email is already taken"]))
                     ELSE /\ pc' = [pc EXCEPT ![p] = "createUser_create"]
                          /\ UNCHANGED resp
  /\ UNCHANGED <<store, nextId, uniqueIndex, user, ret>>

\* Controller createUser from the call of the service's createUser on.
createUser_create(p) ==
  /\ pc[p] = "createUser_create"
  /\ nextId <= MaxAccounts
  /\ \E salt \in Salts, threw \in BOOLEAN :
       LET r == createUser(req[p].name, req[p].email, req[p].password, salt, threw)
       IN /\ store' = r.store
          /\ nextId' = r.nextId
          /\ ret' = [ret EXCEPT ![p] = [success |-> r.success, cause |-> r.cause]]
          /\ Log(p, <<"hashPassword", "repo.createUser">>)
          /\ IF r.success # "true"
             THEN Send(p, next(errorResponder("UNPROCESSABLE_ENTITY", "Failed to create user")))
             ELSE Send(p, json(200, [name |-> req[p].name, email |-> req[p].email]))
  /\ UNCHANGED <<uniqueIndex, req, user>>

\* ------------------------------------------------- updateUser, deleteUser
\* Service updateUser hands the store's answer through: no email pre-check,
\* no try/catch.
updateUser(p) ==
  /\ pc[p] = "idle"
  /\ \E id \in Ids, name \in Names, email \in Emails, threw \in BOOLEAN :
       /\ req' = [req EXCEPT ![p] = [op |-> "updateUser", id |-> id, name |-> name,
                                     email |-> email]]
       /\ Log(p, <<"repo.updateUser">>)
       /\ IF threw \/ (id \in DOMAIN store /\ IndexRejects(id, email))
          THEN /\ Send(p, next(StoreError))
               /\ ret' = [ret EXCEPT ![p] = [success |-> "throw", cause |-> "store_error"]]
               /\ UNCHANGED store
          ELSE IF id \notin DOMAIN store
          THEN /\ Send(p, next(errorResponder("UNPROCESSABLE_ENTITY", "Failed to update user")))
               /\ ret' = [ret EXCEPT ![p] = [success |-> "false", cause |-> "not_found"]]
               /\ UNCHANGED store
          ELSE /\ store' = Put(id, [name |-> name, email |-> email,
                                    password |-> store[id].password])
               /\ ret' = [ret EXCEPT ![p] = [success |-> "true", cause |-> "ok"]]
               /\ Send(p, json(200, [id |-> id]))
  /\ UNCHANGED <<nextId, uniqueIndex, user>>

deleteUser(p) ==
  /\ pc[p] = "idle"
  /\ \E id \in Ids, threw \in BOOLEAN :
       /\ req' = [req EXCEPT ![p] = [op |-> "deleteUser", id |-> id]]
       /\ Log(p, <<"repo.deleteUser">>)
       /\ IF threw
          THEN /\ Send(p, next(StoreError))
               /\ ret' = [ret EXCEPT ![p] = [success |-> "throw", cause |-> "store_error"]]
               /\ UNCHANGED store
          ELSE IF id \notin DOMAIN store
          THEN /\ Send(p, next(errorResponder("UNPROCESSABLE_ENTITY", "Failed to delete user")))
               /\ ret' = [ret EXCEPT ![p] = [success |-> "false", cause |-> "not_found"]]
               /\ UNCHANGED store
          ELSE /\ store' = Remove(id)
               /\ ret' = [ret EXCEPT ![p] = [success |-> "true", cause |-> "ok"]]
               /\ Send(p, json(200, [id |-> id]))
  /\ UNCHANGED <<nextId, uniqueIndex, user>>

\* ---------------------------------------------------- changeUserPassword
\* As PasswordShapeError, without the upper length bound.
PasswordShapeError_NoMax(newPassword, confirmPassword) ==
  IF Len(newPassword) < MinPasswordLength
  THEN errorResponder("INVALID_PASSWORD",
                      "Password length must be between 6 and 32 characters")
  ELSE IF newPassword # confirmPassword
  THEN errorResponder("INVALID_PASSWORD", "New password and confirmation do not match")
  ELSE NULL

\* Controller changeUserPassword: the two checks made before the service call.
PasswordShapeError(newPassword, confirmPassword) ==
  IF Len(newPassword) < MinPasswordLength \/ Len(newPassword) > MaxPasswordLength
  THEN errorResponder("INVALID_PASSWORD",
                      "Password length must be between 6 and 32 characters")
  ELSE IF newPassword # confirmPassword
  THEN errorResponder("INVALID_PASSWORD", "New password and confirmation do not match")
  ELSE NULL

\* As changeUserPassword, without the return on a mismatch.
changeUserPassword_NoMatchCheck(u, oldPassword, newPassword, salt, threw) ==
  IF u = NULL
  THEN [success |-> "null", cause |-> "not_found", calls |-> <<>>,
        write |-> FALSE, hashed |-> NULL]
  ELSE LET hashedNewPassword == hashPassword(newPassword, salt)
       IN IF threw
          THEN [success |-> "null", cause |-> "store_error",
                calls |-> <<"comparePasswords", "hashPassword", "repo.updatePassword">>,
                write |-> FALSE, hashed |-> NULL]
          ELSE [success |-> "true", cause |-> "ok",
                calls |-> <<"comparePasswords", "hashPassword", "repo.updatePassword">>,
                write |-> TRUE, hashed |-> hashedNewPassword]

\* As changeUserPassword, hashing the old password instead of the new one.
changeUserPassword_HashesOld(u, oldPassword, newPassword, salt, threw) ==
  IF u = NULL
  THEN [success |-> "null", cause |-> "not_found", calls |-> <<>>,
        write |-> FALSE, hashed |-> NULL]
  ELSE LET isMatch == comparePasswords(oldPassword, u.password)
           hashedNewPassword == hashPassword(oldPassword, salt)
       IN IF ~isMatch
          THEN [success |-> "false", cause |-> "mismatch",
                calls |-> <<"comparePasswords", "hashPassword">>,
                write |-> FALSE, hashed |-> NULL]
          ELSE IF threw
          THEN [success |-> "null", cause |-> "store_error",
                calls |-> <<"comparePasswords", "hashPassword", "repo.updatePassword">>,
                write |-> FALSE, hashed |-> NULL]
          ELSE [success |-> "true", cause |-> "ok",
                calls |-> <<"comparePasswords", "hashPassword", "repo.updatePassword">>,
                write |-> TRUE, hashed |-> hashedNewPassword]

\* Service changeUserPassword after its lookup returned u.
changeUserPassword(u, oldPassword, newPassword, salt, threw) ==
  IF u = NULL
  THEN [success |-> "null", cause |-> "not_found", calls |-> <<>>,
        write |-> FALSE, hashed |-> NULL]
  ELSE LET isMatch == comparePasswords(oldPassword, u.password)
           hashedNewPassword == hashPassword(newPassword, salt)
       IN IF ~isMatch
          THEN [success |-> "false", cause |-> "mismatch",
                calls |-> <<"comparePasswords", "hashPassword">>,
                write |-> FALSE, hashed |-> NULL]
          ELSE IF threw
          THEN [success |-> "null", cause |-> "store_error",
                calls |-> <<"comparePasswords", "hashPassword", "repo.updatePassword">>,
                write |-> FALSE, hashed |-> NULL]
          ELSE [success |-> "true", cause |-> "ok",
                calls |-> <<"comparePasswords", "hashPassword", "repo.updatePassword">>,
                write |-> TRUE, hashed |-> hashedNewPassword]

\* The store's updatePassword: sets the hash of the record with that id, if any.
RepoUpdatePassword(id, hashedPassword) ==
  IF id \in DOMAIN store
  THEN Put(id, [name |-> store[id].name, email |-> store[id].email,
                password |-> hashedPassword])
  ELSE store

\* Controller changeUserPassword up to the end of the service's awaited lookup.
changeUserPassword_lookup(p) ==
  /\ pc[p] = "idle"
  /\ \E id \in Ids, oldPassword \in GoodPasswords, newPassword \in Passwords :
     \E confirmPassword \in {newPassword, SeedPassword} :
       /\ req' = [req EXCEPT ![p] = [op |-> "changeUserPassword", id |-> id,
                                     oldPassword |-> oldPassword,
                                     newPassword |-> newPassword,
                                     confirmPassword |-> confirmPassword]]
       /\ LET e == PasswordShapeError(newPassword, confirmPassword)
          IN IF e # NULL
             THEN /\ Send(p, next(e))
                  /\ UNCHANGED <<user, calls>>
             ELSE /\ user' = [user EXCEPT ![p] = RepoGetUser(id)]
                  /\ Log(p, <<"repo.getUser">>)
                  /\ pc' = [pc EXCEPT ![p] = "changeUserPassword_commit"]
                  /\ UNCHANGED resp
  /\ UNCHANGED <<store, nextId, uniqueIndex, ret>>

\* Service changeUserPassword from the lookup's result on, and the controller's
\* answer.
changeUserPassword_commit(p) ==
  /\ pc[p] = "changeUserPassword_commit"
  /\ \E salt \in Salts, threw \in BOOLEAN :
       LET r == changeUserPassword(user[p], req[p].oldPassword, req[p].newPassword,
                                   salt, threw)
       IN /\ store' = IF r.write THEN RepoUpdatePassword(req[p].id, r.hashed) ELSE store
          /\ ret' = [ret EXCEPT ![p] = [success |-> r.success, cause |-> r.cause]]
          /\ Log(p, r.calls)
          /\ IF r.success # "true"
             THEN Send(p, next(errorResponder("UNPROCESSABLE_ENTITY",
                                              "Failed to change password")))
             ELSE Send(p, json(200, "Password Changed Succesfuly"))
  /\ user' = [user EXCEPT ![p] = NULL]
  /\ UNCHANGED <<nextId, uniqueIndex, req>>

Finish(p) ==
  /\ pc[p] = "done"
  /\ pc' = [pc EXCEPT ![p] = "idle"]
  /\ req' = [req EXCEPT ![p] = NoRequest]
  /\ user' = [user EXCEPT ![p] = NULL]
  /\ calls' = [calls EXCEPT ![p] = <<>>]
  /\ ret' = [ret EXCEPT ![p] = NoReturn]
  /\ resp' = [resp EXCEPT ![p] = NoResponse]
  /\ UNCHANGED <<store, nextId, uniqueIndex>>

Next ==
  \E p \in Procs :
    \/ getUsers(p)
    \/ getUser(p)
    \/ createUser_check(p)
    \/ createUser_create(p)
    \/ updateUser(p)
    \/ deleteUser(p)
    \/ changeUserPassword_lookup(p)
    \/ changeUserPassword_commit(p)
    \/ Finish(p)

Spec == Init /\ [][Next]_vars

\* ================================================================ claims
Range(s) == {s[i] : i \in 1..Len(s)}

IsCreate(p) == req[p].op = "createUser"
IsChange(p) == req[p].op = "changeUserPassword"

\* The step in which request p leaves the given suspension point and answers.
Answers(p, at) == pc[p] = at /\ pc'[p] = "done"

\* C1: no two distinct stored accounts have the same email, in every reachable
\* state.
C1_EmailUnique ==
  \A i \in DOMAIN store : \A j \in DOMAIN store :
    i # j => store[i].email # store[j].email

\* C2: a createUser request that makes the email lookup, for an email that
\* an account in the store has, ends in that step with 409
\* EMAIL_ALREADY_TAKEN, having made no call but the lookup, and the store is
\* as it was.
C2_ConflictNoWrite ==
  [][\A p \in Procs :
       (/\ pc[p] = "idle"
        /\ req'[p].op = "createUser"
        /\ "repo.getUserByEmail" \in Range(calls'[p])
        /\ RepoGetUserByEmail(req'[p].email) # NULL)
       => /\ pc'[p] = "done"
          /\ resp'[p].via = "json"
          /\ resp'[p].status = 409
          /\ resp'[p].body.error = "EMAIL_ALREADY_TAKEN"
          /\ calls'[p] = <<"repo.getUserByEmail">>
          /\ store' = store]_vars

C2_Witness ==
  \E p \in Procs :
    /\ IsCreate(p) /\ pc[p] = "done"
    /\ resp[p].via = "json" /\ resp[p].status = 409
    /\ \E id \in DOMAIN store : store[id].email = req[p].email
    /\ calls[p] = <<"repo.getUserByEmail">>

\* C3: the step that answers a password change whose old password does not
\* verify against the hash read by the lookup returns the service's mismatch
\* result (false), answers with an error, never calls updatePassword and
\* leaves the store, hence that account's hash, as it was.
C3_MismatchLeavesHash ==
  [][\A p \in Procs :
       (/\ Answers(p, "changeUserPassword_commit")
        /\ user[p] # NULL
        /\ ~comparePasswords(req[p].oldPassword, user[p].password))
       => /\ store' = store
          /\ ret'[p].success = "false"
          /\ resp'[p].via = "next"
          /\ "repo.updatePassword" \notin Range(calls'[p])]_vars

C3_Witness ==
  \E p \in Procs :
    /\ IsChange(p) /\ pc[p] = "done"
    /\ ret[p].cause = "mismatch"
    /\ req[p].id \in DOMAIN store
    /\ ~comparePasswords(req[p].oldPassword, store[req[p].id].password)
    /\ "repo.updatePassword" \notin Range(calls[p])

\* C4: in a password change whose old password does not verify, the hash of
\* the new password is never computed.
C4_NoHashOnMismatch ==
  \A p \in Procs :
    (IsChange(p) /\ pc[p] = "done" /\ ret[p].cause = "mismatch")
    => "hashPassword" \notin Range(calls[p])

\* The step in which request p's password change reaches the store and the
\* store accepts the write, for an account that is still there and whose old
\* password verified at the lookup.
CommitsChange(p) ==
  /\ Answers(p, "changeUserPassword_commit")
  /\ user[p] # NULL
  /\ comparePasswords(req[p].oldPassword, user[p].password)
  /\ ret'[p].cause # "store_error"
  /\ req[p].id \in DOMAIN store

ChangeTookEffect(p) ==
  /\ resp'[p] = json(200, "Password Changed Succesfuly")
  /\ req[p].id \in DOMAIN store'
  /\ comparePasswords(req[p].newPassword, store'[req[p].id].password)
  /\ ~comparePasswords(req[p].oldPassword, store'[req[p].id].password)

\* C5 as stated: every shape-valid password change with the correct old
\* password succeeds, and afterwards the new password verifies against the
\* stored hash and the old one does not.
C5_Original ==
  [][\A p \in Procs : CommitsChange(p) => ChangeTookEffect(p)]_vars

\* C5 as amended: the same, for a new password that differs from the old one.
C5_ChangeReplacesHash ==
  [][\A p \in Procs :
       (CommitsChange(p) /\ req[p].newPassword # req[p].oldPassword)
       => ChangeTookEffect(p)]_vars

C5_Witness ==
  \E p \in Procs :
    /\ IsChange(p) /\ pc[p] = "done" /\ ret[p].success = "true"
    /\ req[p].newPassword # req[p].oldPassword
    /\ req[p].id \in DOMAIN store
    /\ ~comparePasswords(req[p].oldPassword, store[req[p].id].password)
    /\ comparePasswords(req[p].newPassword, store[req[p].id].password)

BadShape(newPassword, confirmPassword) ==
  \/ Len(newPassword) < 6
  \/ Len(newPassword) > 32
  \/ newPassword # confirmPassword

\* C6: a password change whose new password is shorter than 6 or longer than
\* 32 characters, or differs from its confirmation, has answered with an
\* INVALID_PASSWORD error and has made no call at all: no store read, no
\* store write.
C6_ShapeBeforeStore ==
  \A p \in Procs :
    (IsChange(p) /\ BadShape(req[p].newPassword, req[p].confirmPassword)) =>
      /\ pc[p] = "done"
      /\ resp[p].via = "next"
      /\ resp[p].error.type = "INVALID_PASSWORD"
      /\ calls[p] = <<>>

C6_Witness ==
  \E p \in Procs : \E q \in Procs :
    /\ IsChange(p) /\ pc[p] = "done" /\ Len(req[p].newPassword) > 32
    /\ req[p].id \in DOMAIN store
    /\ IsChange(q) /\ pc[q] = "done" /\ Len(req[q].newPassword) \in 6..32
    /\ req[q].newPassword # req[q].confirmPassword
    /\ resp[q].via = "next" /\ resp[q].error.type = "INVALID_PASSWORD"

FailedChange(p) ==
  IsChange(p) /\ pc[p] = "done" /\ ret[p].cause \in {"not_found", "mismatch", "store_error"}

\* C7: a password change for an unknown id, one with a wrong old password and
\* one whose store write failed are answered differently, so that the caller
\* can tell the three apart.
C7_FailuresDistinct ==
  \A p \in Procs : \A q \in Procs :
    (FailedChange(p) /\ FailedChange(q) /\ ret[p].cause # ret[q].cause)
    => resp[p] # resp[q]

HasFields(body, fields) == DOMAIN body = fields

\* C8: every record answered by getUsers and getUser has exactly the fields
\* id, name and email, the record answered by a successful createUser has
\* exactly name and email, and neither carries a password as a value.
C8_NoPasswordReturned ==
  \A p \in Procs :
    (pc[p] = "done" /\ resp[p].via = "json" /\ resp[p].status = 200) =>
      /\ req[p].op = "getUser" =>
           /\ HasFields(resp[p].body, {"id", "name", "email"})
           /\ {resp[p].body.name, resp[p].body.email} \cap Passwords = {}
      /\ req[p].op = "getUsers" =>
           \A i \in 1..Len(resp[p].body) :
             /\ HasFields(resp[p].body[i], {"id", "name", "email"})
             /\ {resp[p].body[i].name, resp[p].body[i].email} \cap Passwords = {}
      /\ req[p].op = "createUser" =>
           /\ HasFields(resp[p].body, {"name", "email"})
           /\ {resp[p].body.name, resp[p].body.email} \cap Passwords = {}

C8_Witness ==
  \E p \in Procs : \E q \in Procs :
    /\ req[p].op = "getUsers" /\ pc[p] = "done" /\ Len(resp[p].body) = 2
    /\ req[q].op = "getUser" /\ pc[q] = "done" /\ resp[q].via = "json"

\* C9: on a store without a unique index, the create step of a request that
\* passed the email pre-check inserts its account even when another account
\* with that email has appeared since the pre-check: the request succeeds and
\* two accounts share the email.
C9_CheckThenCreateRace ==
  [][\A p \in Procs :
       (/\ Answers(p, "createUser_create")
        /\ ~uniqueIndex
        /\ ret'[p].cause # "store_error"
        /\ \E id \in DOMAIN store : store[id].email = req[p].email)
       => /\ resp'[p] = json(200, [name |-> req[p].name, email |-> req[p].email])
          /\ \E i \in DOMAIN store' : \E j \in DOMAIN store' :
               /\ i # j
               /\ store'[i].email = req[p].email
               /\ store'[j].email = req[p].email]_vars

\* Both requests passed the pre-check, both called the store's create, both
\* succeeded, and their two accounts have the one email.
C9_Witness ==
  \E p \in Procs : \E q \in Procs :
    /\ p # q /\ ~uniqueIndex
    /\ IsCreate(p) /\ IsCreate(q) /\ req[p].email = req[q].email
    /\ pc[p] = "done" /\ pc[q] = "done"
    /\ calls[p] = calls[q]
    /\ "repo.createUser" \in Range(calls[p]) /\ "repo.createUser" \in Range(calls[q])
    /\ resp[p].via = "json" /\ resp[p].status = 200
    /\ resp[q].via = "json" /\ resp[q].status = 200
    /\ Cardinality({id \in DOMAIN store : store[id].email = req[p].email}) = 2

\* C10: every write of a new hash by updatePassword happens in a state where
\* the request's old password verifies against the hash stored at that moment.
C10_NoStaleOverwrite ==
  [][\A p \in Procs :
       (/\ Answers(p, "changeUserPassword_commit")
        /\ "repo.updatePassword" \in Range(calls'[p])
        /\ ret'[p].success = "true"
        /\ req[p].id \in DOMAIN store)
       => comparePasswords(req[p].oldPassword, store[req[p].id].password)]_vars
====
